---- MODULE Spec2Model ----
(***************************************************************************)
(* The memoization core of the decorators library, and the decorators    *)
(* built on it.                                                            *)
(*                                                                         *)
(*   src/function.js     Cache, DefaultMap, memoize, once, curry, throttle *)
(*                       (current code)                                    *)
(*   src/use.js          use, which applies the advices of function.js     *)
(*   src/descorators.js  memoize, curry, retrieve, keyFor (earlier code)   *)
(*                                                                         *)
(* JavaScript values are records [type, v]: type is the value's kind and   *)
(* v the characters of its text (a number's decimal digits, a string's     *)
(* characters, an object's name, which stands for its identity).  Strings  *)
(* and cache keys are sequences of one-character strings.                  *)
(***************************************************************************)
EXTENDS Integers, Sequences, FiniteSets, TLC

\* ------------------------------------------------------------------ bounds
MaxLen == 2        \* longest argument list drawn for the key functions
MaxCalls == 3      \* fetch calls in one behaviour
MaxDepth == 2      \* compute thunks running at once (nesting of fetch)

\* ------------------------------------------------------- JavaScript values
Q == "\""          \* the quote character
Comma == ","

Undefined == [type |-> "undefined", v |-> <<"u","n","d","e","f","i","n","e","d">>]
Null == [type |-> "null", v |-> <<"n","u","l","l">>]
Num(d) == [type |-> "number", v |-> <<d>>]
Str(s) == [type |-> "string", v |-> s]
Obj(n) == [type |-> "object", v |-> <<"o", n>>]

\* typeof it
TypeOf(it) == IF it.type = "null" THEN "object" ELSE it.type

\* it == null
IsNullish(it) == it.type \in {"null", "undefined"}

\* `${it}` for a primitive
Template(it) == it.v

Digit == <<"0", "1", "2", "3", "4", "5", "6", "7", "8", "9">>

\* `${n}` for a surrogate id n >= 0
RECURSIVE NumToStr(_)
NumToStr(n) == IF n < 10 THEN <<Digit[n + 1]>>
               ELSE NumToStr(n \div 10) \o <<Digit[(n % 10) + 1]>>

\* String.prototype.replace(pattern, replacement) with a one-character string
\* pattern: the first occurrence only
RECURSIVE Replace(_, _, _)
Replace(s, pattern, replacement) ==
  IF s = <<>> THEN <<>>
  ELSE IF Head(s) = pattern THEN replacement \o Tail(s)
  ELSE <<Head(s)>> \o Replace(Tail(s), pattern, replacement)

\* Array.prototype.join(",")
RECURSIVE Join(_)
Join(tokens) ==
  IF tokens = <<>> THEN <<>>
  ELSE IF Len(tokens) = 1 THEN tokens[1]
  ELSE tokens[1] \o <<Comma>> \o Join(Tail(tokens))

\* The string literal '\"' of keyFrom and keyFor: the escape \" denotes the
\* quote character itself, so the literal is the one-character string "
EscapedQuote == <<Q>>

\* The token of a string argument: `"${it.replace('"', '\"')}"`
StringToken(it) == <<Q>> \o Replace(it.v, Q, EscapedQuote) \o <<Q>>

\* --------------------------------------------------------------- small maps
\* A Map or WeakMap is a function whose DOMAIN is the set of its keys.
EmptyMap == [x \in {} |-> 0]

\* Map.prototype.has / WeakMap.prototype.has
Has(m, key) == key \in DOMAIN m

\* Map.prototype.set / WeakMap.prototype.set
Put(m, key, value) == [x \in DOMAIN m \cup {key} |-> IF x = key THEN value ELSE m[x]]

\* What a history map holds for x, or a default
Get(m, x, default) == IF x \in DOMAIN m THEN m[x] ELSE default

\* ------------------------------------------- function.js: Cache.keyFrom
\* The identifiers bound in the module scope of function.js: its import and
\* its top-level declarations.  `guuid` and `references` are static fields of
\* Cache, reachable as Cache.guuid and Cache.references only.
ModuleScope == {"use", "once", "bind", "throttle", "leading", "falling",
                "curry", "memoize", "DefaultMap", "Cache"}

\* DefaultMap.get(key) of Cache.references: fetch(key, () => Cache.guuid++)
ReferencesGet(reg, it) ==
  IF Has(reg.references, it)
  THEN [id |-> reg.references[it], reg |-> reg]
  ELSE [id |-> reg.guuid,
        reg |-> [guuid |-> reg.guuid + 1,
                 references |-> Put(reg.references, it, reg.guuid)]]

\* The callback of parameters.map in keyFrom: one argument's token, an error
\* when evaluating it throws, and the registry afterwards
keyFromToken(it, reg) ==
  IF IsNullish(it) THEN [error |-> "none", token |-> Template(it), reg |-> reg]
  ELSE IF TypeOf(it) \in {"object", "function"}
  THEN IF "references" \in ModuleScope
       THEN LET r == ReferencesGet(reg, it)
            IN [error |-> "none", token |-> <<"<">> \o NumToStr(r.id) \o <<">">>,
                reg |-> r.reg]
       ELSE [error |-> "ReferenceError", token |-> <<>>, reg |-> reg]
  ELSE IF TypeOf(it) = "string"
  THEN [error |-> "none", token |-> StringToken(it), reg |-> reg]
  ELSE [error |-> "none", token |-> Template(it), reg |-> reg]

\* parameters.map(...), left to right, stopping at the first throw
RECURSIVE keyFromMap(_, _)
keyFromMap(parameters, reg) ==
  IF parameters = <<>> THEN [error |-> "none", tokens |-> <<>>, reg |-> reg]
  ELSE LET t == keyFromToken(Head(parameters), reg)
       IN IF t.error # "none"
          THEN [error |-> t.error, tokens |-> <<>>, reg |-> t.reg]
          ELSE LET rest == keyFromMap(Tail(parameters), t.reg)
               IN [error |-> rest.error,
                   tokens |-> <<t.token>> \o rest.tokens,
                   reg |-> rest.reg]

\* Cache.keyFrom(parameters): [error, key, reg]
keyFrom(parameters, reg) ==
  LET m == keyFromMap(parameters, reg)
  IN [error |-> m.error,
      key |-> IF m.error = "none" THEN Join(m.tokens) ELSE <<>>,
      reg |-> m.reg]

\* ------------------------------------------- descorators.js: keyFor
\* retrieveReference with a fault: the counter is read and not incremented
retrieveReferenceSameId(reg, it) ==
  IF Has(reg.references, it)
  THEN [id |-> reg.references[it], reg |-> reg]
  ELSE [id |-> reg.guuid,
        reg |-> [guuid |-> reg.guuid,
                 references |-> Put(reg.references, it, reg.guuid)]]

\* retrieve(references, it, () => guuid++)
retrieveReference(reg, it) ==
  IF Has(reg.references, it)
  THEN [id |-> reg.references[it], reg |-> reg]
  ELSE [id |-> reg.guuid,
        reg |-> [guuid |-> reg.guuid + 1,
                 references |-> Put(reg.references, it, reg.guuid)]]

\* The callback of args.map in keyFor
keyForToken(it, reg) ==
  IF TypeOf(it) = "object" /\ it.type = "null"
  THEN [token |-> <<"n", "u", "l", "l">>, reg |-> reg]
  ELSE IF TypeOf(it) \in {"object", "function"}
  THEN LET r == retrieveReference(reg, it)
       IN [token |-> <<"<">> \o NumToStr(r.id) \o <<">">>, reg |-> r.reg]
  ELSE IF TypeOf(it) = "string"
  THEN [token |-> StringToken(it), reg |-> reg]
  ELSE [token |-> Template(it), reg |-> reg]

RECURSIVE keyForMap(_, _)
keyForMap(args, reg) ==
  IF args = <<>> THEN [tokens |-> <<>>, reg |-> reg]
  ELSE LET t == keyForToken(Head(args), reg)
           rest == keyForMap(Tail(args), t.reg)
       IN [tokens |-> <<t.token>> \o rest.tokens, reg |-> rest.reg]

\* keyFor(...args): [key, reg]
keyFor(args, reg) ==
  LET m == keyForMap(args, reg)
  IN [key |-> Join(m.tokens), reg |-> m.reg]

\* -------------------------------------------------- function.js: the caches
VARIABLES
  store,             \* Cache.store of each Cache: context -> (key -> result)
  Cache_guuid,       \* Cache.guuid
  Cache_references,  \* the WeakMap of Cache.references
  stack,             \* the fallbacks that are running, innermost last
  nextInstance,      \* the objects constructed so far, plus one
  ncalls,            \* fetch calls made so far
  last,              \* what the last finished fetch did
  raised,            \* what the last fallback that threw has thrown
  computes,          \* <<cache, context, key>> -> times its fallback was invoked
  stored,            \* <<cache, context, key>> -> the results stored, in order
  reentered,         \* the <<cache, context, key>> whose fallback was invoked
                     \* while a fallback of the same three was running
  returned,          \* <<cache, context, parameters>> -> the first value a fetch
                     \* returned
  settled            \* the same, of the fetches that returned while no fallback
                     \* of their cache, context and key was running

cacheVars == <<store, Cache_guuid, Cache_references, stack, nextInstance, ncalls,
               last, raised, computes, stored, reentered, returned, settled>>

\* The Cache of a memoized class, and a Cache used with explicit receivers
ClassCache == "K"
Caches == {"c1", ClassCache}

\* The receivers of the fetch calls, and the class that memoize decorates
Receivers == {"r1", "r2"}
Target == "T"

\* The argument lists of the fetch calls
FetchParams == { <<Num("1"), Num("2")>>, <<Num("2"), Num("1")>>,
                 <<Str(<<"a">>)>>, <<Obj("1")>> }

\* What a fallback returns, an object made by `new target(...)`, what it throws
Val(n) == [kind |-> "value", n |-> n, name |-> ""]
Inst(n) == [kind |-> "instance", n |-> n, name |-> ""]
Err(name) == [kind |-> "error", n |-> 0, name |-> name]
Results == {Val(1), Val(2)}
Thrown == {Err("E")}
NoValue == [kind |-> "none", n |-> 0, name |-> ""]

\* A finished fetch: its inputs, its key, how it ended, whether it invoked its
\* fallback, and whether it was called after a fetch of the same cache,
\* context and parameters had returned (after) or settled (afterSettled)
NoCall == [op |-> "none", cache |-> "none", context |-> "none",
           parameters |-> <<>>, key |-> <<>>, outcome |-> "none",
           value |-> NoValue, invoked |-> FALSE, after |-> FALSE,
           afterSettled |-> FALSE]

Done(c, context, parameters, key, outcome, value, invoked, after, afterSettled) ==
  [op |-> "fetch", cache |-> c, context |-> context,
   parameters |-> parameters, key |-> key, outcome |-> outcome,
   value |-> value, invoked |-> invoked, after |-> after,
   afterSettled |-> afterSettled]

InitCache ==
  /\ store = [c \in Caches |-> EmptyMap]
  /\ Cache_guuid = 1
  /\ Cache_references = EmptyMap
  /\ stack = <<>>
  /\ nextInstance = 1
  /\ ncalls = 0
  /\ last = NoCall
  /\ raised = NoValue
  /\ computes = EmptyMap
  /\ stored = EmptyMap
  /\ reentered = {}
  /\ returned = EmptyMap
  /\ settled = EmptyMap

\* A fallback of this cache, context and key is running
Running(stk, c, context, key) ==
  \E i \in 1..Len(stk) :
    stk[i].cache = c /\ stk[i].context = context /\ stk[i].key = key

\* ScopeGet with a fault: a new table on every lookup
ScopeGetFresh(scopes, context) == Put(scopes, context, EmptyMap)

\* ScopeGet with a fault: a receiver seen for the first time gets the entries of
\* a receiver seen before
ScopeGetShared(scopes, context) ==
  IF Has(scopes, context) THEN scopes
  ELSE IF DOMAIN scopes = {} THEN Put(scopes, context, EmptyMap)
  ELSE Put(scopes, context, scopes[CHOOSE r \in DOMAIN scopes : TRUE])

\* DefaultMap.get(context) of Cache.store: the receiver's table, made on first use
ScopeGet(scopes, context) ==
  IF Has(scopes, context) THEN scopes ELSE Put(scopes, context, EmptyMap)

\* Missing with a fault: the test of the table is lost
MissingAlways(table, key) == TRUE

\* DefaultMap.fetch: `!this.store.has(key)`
Missing(table, key) == ~Has(table, key)

\* StoreResult with a fault: the result replaces the table
StoreResultAlone(table, key, value) == Put(EmptyMap, key, value)

\* StoreResult with a fault: the result is stored under the empty key as well
StoreResultTwice(table, key, value) == Put(Put(table, <<>>, value), key, value)

\* DefaultMap.fetch: `this.store.set(key, fallback())` once fallback() returned
StoreResult(table, key, value) == Put(table, key, value)

\* AfterThrow with a fault: the error is stored as the result
AfterThrowPoisoned(table, key, error) == Put(table, key, error)

\* DefaultMap.fetch when fallback() throws: `this.store.set` is not reached
AfterThrow(table, key, error) == table

\* DefaultMap.fetch and Cache.fetch have no try: the error leaves as thrown
Propagate(error) == error

\* The first value returned is remembered, per argument list
Remember(m, x, value) == IF x \in DOMAIN m THEN m ELSE Put(m, x, value)

\* Cache.fetch(context, parameters, fallback) up to the call of fallback:
\* the scope lookup, the key, and either the hit, the throw of keyFrom, or the
\* start of fallback.  kind is "thunk" for a caller's fallback and "new" for
\* the `() => new target(...parameters)` of a memoized class.
Fetch(c, context, parameters, kind) ==
  /\ ncalls < MaxCalls
  /\ Len(stack) < MaxDepth
  /\ ncalls' = ncalls + 1
  /\ LET scopes == ScopeGet(store[c], context)
         k == keyFrom(parameters, [guuid |-> Cache_guuid, references |-> Cache_references])
         x == <<c, context, parameters>>
         t == <<c, context, k.key>>
         after == x \in DOMAIN returned
         afterSettled == x \in DOMAIN settled
     IN /\ store' = [store EXCEPT ![c] = scopes]
        /\ Cache_guuid' = k.reg.guuid
        /\ Cache_references' = k.reg.references
        /\ IF k.error # "none"
           THEN /\ last' = Done(c, context, parameters, <<>>, "throw",
                                Err(k.error), FALSE, after, afterSettled)
                /\ UNCHANGED <<stack, computes, reentered, returned, settled>>
           ELSE IF Missing(scopes[context], k.key)
           THEN /\ stack' = Append(stack, [cache |-> c, context |-> context,
                                           parameters |-> parameters, key |-> k.key,
                                           kind |-> kind, after |-> after,
                                           afterSettled |-> afterSettled,
                                           stored0 |-> Len(Get(stored, t, <<>>))])
                /\ computes' = Put(computes, t, Get(computes, t, 0) + 1)
                /\ reentered' = IF Running(stack, c, context, k.key)
                                THEN reentered \cup {t} ELSE reentered
                /\ UNCHANGED <<last, returned, settled>>
           ELSE LET value == scopes[context][k.key]
                IN /\ last' = Done(c, context, parameters, k.key, "return",
                                   value, FALSE, after, afterSettled)
                   /\ returned' = Remember(returned, x, value)
                   /\ settled' = IF Running(stack, c, context, k.key) THEN settled
                                 ELSE Remember(settled, x, value)
                   /\ UNCHANGED <<stack, computes, reentered>>
  /\ UNCHANGED <<nextInstance, raised, stored>>

\* The innermost running fallback returns value: DefaultMap.fetch stores it
\* under the key and returns what the table then holds
Finish(value) ==
  LET f == stack[Len(stack)]
      rest == SubSeq(stack, 1, Len(stack) - 1)
      x == <<f.cache, f.context, f.parameters>>
      t == <<f.cache, f.context, f.key>>
      table == StoreResult(store[f.cache][f.context], f.key, value)
  IN /\ stack' = rest
     /\ store' = [store EXCEPT ![f.cache][f.context] = table]
     /\ stored' = Put(stored, t, Append(Get(stored, t, <<>>), value))
     /\ last' = Done(f.cache, f.context, f.parameters, f.key, "return",
                     table[f.key], TRUE, f.after, f.afterSettled)
     /\ returned' = Remember(returned, x, table[f.key])
     /\ settled' = IF Running(rest, f.cache, f.context, f.key) THEN settled
                   ELSE Remember(settled, x, table[f.key])
     /\ UNCHANGED <<Cache_guuid, Cache_references, ncalls, raised, computes,
                    reentered>>

\* A caller's fallback returns
FallbackReturn(value) ==
  /\ stack # <<>>
  /\ stack[Len(stack)].kind = "thunk"
  /\ Finish(value)
  /\ UNCHANGED nextInstance

\* `new target(...parameters)` returns the object it constructed
ConstructorReturn ==
  /\ stack # <<>>
  /\ stack[Len(stack)].kind = "new"
  /\ Finish(Inst(nextInstance))
  /\ nextInstance' = nextInstance + 1

\* The innermost running fallback throws: nothing is stored and the error
\* leaves fetch as it is
FallbackThrow(error) ==
  /\ stack # <<>>
  /\ LET f == stack[Len(stack)]
     IN /\ stack' = SubSeq(stack, 1, Len(stack) - 1)
        /\ store' = [store EXCEPT ![f.cache][f.context] = AfterThrow(@, f.key, error)]
        /\ raised' = error
        /\ last' = Done(f.cache, f.context, f.parameters, f.key, "throw",
                        Propagate(error), TRUE, f.after, f.afterSettled)
  /\ UNCHANGED <<Cache_guuid, Cache_references, nextInstance, ncalls, computes,
                 stored, reentered, returned, settled>>

\* Construct with a fault: `this` instead of target as the context
ConstructOnThis(parameters) == Fetch(ClassCache, "this", parameters, "new")

\* memoize.class: `new MemoizedClass(...parameters)`
Construct(parameters) == Fetch(ClassCache, Target, parameters, "new")

\* A fetch on a Cache with a receiver and a fallback of the caller
FetchCall(c, context, parameters) ==
  /\ c # ClassCache
  /\ Fetch(c, context, parameters, "thunk")

\* ------------------------------------- descorators.js: memoized methods
VARIABLES
  guuid,        \* the module's `let guuid`
  references,   \* the module's `const references = new WeakMap()`
  cache,        \* of each memoized method, its `cache`: this -> (key -> result)
  bound,        \* of each memoized method, the keys of its `bound`
  mstack,       \* the methods that are running, innermost last
  mcalls,       \* calls of memoized methods made so far
  mlast         \* what the last finished call did

methodVars == <<guuid, references, cache, bound, mstack, mcalls, mlast>>

\* Two methods decorated with memoize, and the argument lists of their calls
Methods == {"m1", "m2"}
MethodArgs == { <<Obj("1")>>, <<Obj("2"), Obj("1")>>, <<Str(<<"a">>)>> }

NoMethodCall == [op |-> "none", method |-> "none", this |-> "none", args |-> <<>>,
                 key |-> <<>>, outcome |-> "none", value |-> NoValue,
                 invoked |-> FALSE, calls |-> 0]

MethodDone(m, this, args, key, outcome, value, invoked) ==
  [op |-> "call", method |-> m, this |-> this, args |-> args, key |-> key,
   outcome |-> outcome, value |-> value, invoked |-> invoked,
   calls |-> mlast.calls + 1]

InitMethods ==
  /\ guuid = 1
  /\ references = EmptyMap
  /\ cache = [m \in Methods |-> EmptyMap]
  /\ bound = [m \in Methods |-> {}]
  /\ mstack = <<>>
  /\ mcalls = 0
  /\ mlast = NoMethodCall

\* retrieve(store, key, create): `store.has(key)`
retrieveHas(m, key) == Has(m, key)

\* memoizedMethod up to the call of the method: the two per-instance lookups,
\* keyFor, init, and retrieve's test of the store
MethodCall(m, this, args) ==
  /\ mcalls < MaxCalls
  /\ Len(mstack) < MaxDepth
  /\ mcalls' = mcalls + 1
  /\ bound' = [bound EXCEPT ![m] = @ \cup {this}]
  /\ LET stores == IF retrieveHas(cache[m], this) THEN cache[m]
                   ELSE Put(cache[m], this, EmptyMap)
         k == keyFor(args, [guuid |-> guuid, references |-> references])
     IN /\ cache' = [cache EXCEPT ![m] = stores]
        /\ guuid' = k.reg.guuid
        /\ references' = k.reg.references
        /\ IF retrieveHas(stores[this], k.key)
           THEN /\ mlast' = MethodDone(m, this, args, k.key, "return",
                                       stores[this][k.key], FALSE)
                /\ UNCHANGED mstack
           ELSE /\ mstack' = Append(mstack, [method |-> m, this |-> this,
                                             args |-> args, key |-> k.key])
                /\ UNCHANGED mlast

\* The innermost running method returns: retrieve stores the value
MethodReturn(value) ==
  /\ mstack # <<>>
  /\ LET f == mstack[Len(mstack)]
     IN /\ mstack' = SubSeq(mstack, 1, Len(mstack) - 1)
        /\ cache' = [cache EXCEPT ![f.method][f.this] = Put(@, f.key, value)]
        /\ mlast' = MethodDone(f.method, f.this, f.args, f.key, "return", value, TRUE)
  /\ UNCHANGED <<guuid, references, bound, mcalls>>

\* The innermost running method throws
MethodThrow(error) ==
  /\ mstack # <<>>
  /\ LET f == mstack[Len(mstack)]
     IN /\ mstack' = SubSeq(mstack, 1, Len(mstack) - 1)
        /\ mlast' = MethodDone(f.method, f.this, f.args, f.key, "throw", error, TRUE)
  /\ UNCHANGED <<guuid, references, cache, bound, mcalls>>

\* ------------------------------------------------ the key functions alone
VARIABLES
  p, q,         \* two argument lists
  hashed,       \* the keys below have been computed
  fromP, fromQ, \* Cache.keyFrom of p and of q
  forP, forQ    \* keyFor of p, and then of q

keyVars == <<p, q, hashed, fromP, fromQ, forP, forQ>>

\* The values of the argument lists: numbers, strings (one of them with quotes
\* and a comma inside) and objects
KeyValues == { Num("1"), Num("2"), Str(<<"a">>), Str(<<"a", Q, Comma, Q, "a">>),
               Obj("1"), Obj("2") }

RECURSIVE ListsUpTo(_)
ListsUpTo(n) ==
  IF n = 0 THEN { <<>> }
  ELSE LET shorter == ListsUpTo(n - 1)
       IN shorter \cup { Append(l, x) : l \in { s \in shorter : Len(s) = n - 1 },
                                        x \in KeyValues }

ArgLists == ListsUpTo(MaxLen)

NoKey == [error |-> "none", key |-> <<>>]

IdleKeys ==
  /\ p = <<>>
  /\ q = <<>>
  /\ hashed = FALSE
  /\ fromP = NoKey
  /\ fromQ = NoKey
  /\ forP = NoKey
  /\ forQ = NoKey

\* keyFrom and keyFor applied to p and then to q, from the registries' first state
Hash ==
  /\ ~hashed
  /\ hashed' = TRUE
  /\ LET reg0 == [guuid |-> 1, references |-> EmptyMap]
         a == keyFrom(p, reg0)
         b == keyFrom(q, a.reg)
         c == keyFor(p, reg0)
         d == keyFor(q, c.reg)
     IN /\ fromP' = [error |-> a.error, key |-> a.key]
        /\ fromQ' = [error |-> b.error, key |-> b.key]
        /\ forP' = [error |-> "none", key |-> c.key]
        /\ forQ' = [error |-> "none", key |-> d.key]
  /\ UNCHANGED <<p, q>>

\* ------------------------------------------------------ function.js: once
VARIABLES
  once_target,  \* typeof of the value once was applied to, "none" before
  wrapper,      \* TRUE once `descriptor.value` is the wrapper once returned
  done,         \* the wrapper's `let done`
  result,       \* the wrapper's `let result`
  ostack,       \* the calls of the target that are running, innermost last
  ocalls,       \* calls of the wrapper made so far
  olast,        \* what the last finished call of the wrapper did
  oinvoked,     \* the <<this, arguments>> the target was invoked with, in order
  ofirst        \* how the first call of the wrapper ended

onceVars == <<once_target, wrapper, done, result, ostack, ocalls, olast,
              oinvoked, ofirst>>

\* `void 0`, as a result
UndefinedResult == [kind |-> "undefined", n |-> 0, name |-> ""]

\* The receivers of the calls, `this` being undefined for a call without one
Thises == Receivers \cup {"undefined"}
CallArgLists == { <<>>, <<Num("1")>> }
TargetTypes == {"function", "number"}

NoOnceCall == [op |-> "none", this |-> "none", args |-> <<>>, outcome |-> "none",
               value |-> NoValue, invoked |-> FALSE, first |-> FALSE,
               nested |-> FALSE, afterReturn |-> FALSE]

OnceDone(this, args, outcome, value, invoked, first, nested, afterReturn) ==
  [op |-> "call", this |-> this, args |-> args, outcome |-> outcome,
   value |-> value, invoked |-> invoked, first |-> first, nested |-> nested,
   afterReturn |-> afterReturn]

InitOnce ==
  /\ once_target = "none"
  /\ wrapper = FALSE
  /\ done = FALSE
  /\ result = UndefinedResult
  /\ ostack = <<>>
  /\ ocalls = 0
  /\ olast = NoOnceCall
  /\ oinvoked = <<>>
  /\ ofirst = NoValue

\* The wrapper's `if (done) return result`, with a fault: the test is lost
OnceGuardLost(d) == FALSE

\* The wrapper's `if (done) return result`
OnceGuard(d) == d

\* use(function once(target) {...}) applied to a method: `descriptor.value =
\* aspect.value(descriptor.value)`, and once throws for a non-function
OnceDecorate(type) ==
  /\ once_target = "none"
  /\ once_target' = type
  /\ wrapper' = (type = "function")
  /\ olast' = IF type = "function" THEN olast
              ELSE [NoOnceCall EXCEPT !.op = "decorate", !.outcome = "throw",
                                      !.value = Err("TypeError")]
  /\ UNCHANGED <<done, result, ostack, ocalls, oinvoked, ofirst>>

\* wrapper.apply(this, args) up to the call of the target
OnceCall(this, args) ==
  /\ wrapper
  /\ ocalls < MaxCalls
  /\ Len(ostack) < MaxDepth
  /\ ocalls' = ocalls + 1
  /\ IF OnceGuard(done)
     THEN /\ olast' = OnceDone(this, args, "return", result, FALSE, FALSE,
                               ostack # <<>>, ofirst.kind = "value")
          /\ UNCHANGED <<done, result, ostack, oinvoked>>
     ELSE /\ done' = TRUE
          /\ ostack' = Append(ostack, [this |-> this, args |-> args,
                                       first |-> (ocalls = 0)])
          /\ oinvoked' = Append(oinvoked, <<this, args>>)
          /\ UNCHANGED <<result, olast>>
  /\ UNCHANGED <<once_target, wrapper, ofirst>>

\* The target returns: `result = target.apply(this, arguments); return result`
OnceTargetReturn(value) ==
  /\ ostack # <<>>
  /\ LET f == ostack[Len(ostack)]
     IN /\ ostack' = SubSeq(ostack, 1, Len(ostack) - 1)
        /\ result' = value
        /\ olast' = OnceDone(f.this, f.args, "return", value, TRUE, f.first,
                             Len(ostack) > 1, FALSE)
        /\ ofirst' = IF f.first THEN value ELSE ofirst
  /\ UNCHANGED <<once_target, wrapper, done, ocalls, oinvoked>>

\* The target throws: the assignment to result is not reached, done stays set
OnceTargetThrow(error) ==
  /\ ostack # <<>>
  /\ LET f == ostack[Len(ostack)]
     IN /\ ostack' = SubSeq(ostack, 1, Len(ostack) - 1)
        /\ olast' = OnceDone(f.this, f.args, "throw", error, TRUE, f.first,
                             Len(ostack) > 1, FALSE)
        /\ ofirst' = IF f.first THEN error ELSE ofirst
  /\ UNCHANGED <<once_target, wrapper, done, result, ocalls, oinvoked>>

\* --------------------------------- function.js and descorators.js: curry
VARIABLES
  curried,    \* what curry was applied to and what it installed
  partials,   \* the bound functions that calls of the curried function returned
  cprops,     \* the own property names of the objects passed as arguments
  cinstance,  \* the objects constructed by a curried class so far, plus one
  ccalls,     \* calls of the curried function and of its partials made so far
  clast,      \* what the last finished call did
  cinvoked    \* the <<this, arguments>> of the target's invocations, in order

curryVars == <<curried, partials, cprops, cinstance, ccalls, clast, cinvoked>>

\* function.js gets use from use.js; descorators.js decorates by itself
CurryModules == {"function.js", "descorators.js"}
CurrySites == {"method", "class", "accessor", "value"}

\* `target.length` of the decorated functions
TargetLengths == {2, 3}

\* The argument lists of the calls
CurryArgs == { <<>>, <<Num("1")>>, <<Num("1"), Num("2")>>,
               <<Num("1"), Obj("1")>>, <<Num("1"), Obj("2")>> }

NotCurried == [module |-> "none", site |-> "none", length |-> 0,
               installed |-> FALSE, error |-> "none"]

\* The function a decoration installs: it has no bound `this` and no bound
\* arguments
Root == [this |-> "none", args |-> <<>>]

NoCurryCall == [op |-> "none", f |-> Root, this |-> "none", args |-> <<>>,
                new |-> FALSE, arguments |-> <<>>, outcome |-> "none",
                value |-> NoValue, invoked |-> FALSE]

CurryDone(f, this, args, new, arguments, outcome, value, invoked) ==
  [op |-> "call", f |-> f, this |-> this, args |-> args, new |-> new,
   arguments |-> arguments, outcome |-> outcome, value |-> value,
   invoked |-> invoked]

\* A function, as a result
Fn(this, args) == [kind |-> "function", n |-> Len(args), name |-> this]

InitCurry ==
  /\ curried = NotCurried
  /\ partials = {}
  /\ cprops = [o \in {"1", "2"} |-> IF o = "2" THEN {"value"} ELSE {}]
  /\ cinstance = 1
  /\ ccalls = 0
  /\ clast = NoCurryCall
  /\ cinvoked = <<>>

\* What the name `bind` is bound to in each module: function.js declares a
\* decorator of that name (line 31) and imports nothing else; descorators.js
\* takes bind from Function.prototype (line 6)
BindIs(module) ==
  IF module = "function.js" THEN "decorator" ELSE "Function.prototype.bind"

\* What use(aspect) finds in the aspect of curry: function.js gives `accessor`
\* and `value`, and no `class`
CurryAspect == {"accessor", "value"}

\* JavaScript's ToBoolean of an argument, and the own property names of a value
Truthy(it) ==
  ~(IsNullish(it) \/ it = Num("0") \/ it = Str(<<>>))

OwnKeys(it, props) == IF TypeOf(it) = "object" /\ ~IsNullish(it) THEN props[it.v[2]] ELSE {}

\* typeof of a receiver
ThisType(this) == IF this = "undefined" THEN "undefined" ELSE "object"

\* function.js bind(target, name, descriptor), the decorator, called with the
\* receiver as target and the first two arguments as name and descriptor:
\* [outcome, props]
BindDecorator(target, name, descriptor, props) ==
  LET own == OwnKeys(descriptor, props)
  IN IF Truthy(descriptor) /\ "value" \in own
     THEN \* the argument objects hold no functions: typeof value # "function"
          [outcome |-> "throw", props |-> props]
     ELSE IF Truthy(descriptor) /\ ("get" \in own \/ "set" \in own)
     THEN [outcome |-> "throw", props |-> props]
     ELSE IF ThisType(target) = "function" /\ IsNullish(name) /\ IsNullish(descriptor)
     THEN [outcome |-> "throw", props |-> props]
     ELSE IF IsNullish(descriptor)
     THEN \* `const { value } = descriptor`
          [outcome |-> "throw", props |-> props]
     ELSE IF TypeOf(descriptor) # "object"
     THEN \* `descriptor.get = ...` on a primitive, in a module (strict mode)
          [outcome |-> "throw", props |-> props]
     ELSE [outcome |-> "undefined",
           props |-> [props EXCEPT ![descriptor.v[2]] = (@ \ {"value"}) \cup {"get", "set"}]]

\* arguments[i], undefined when absent
Argument(arguments, i) == IF i <= Len(arguments) THEN arguments[i] ELSE Undefined

\* The decoration.  function.js: use(aspect)(target, name, descriptor) with the
\* aspect of curry.  descorators.js: curry(target, name, descriptor).
CurryDecorate(module, site, length) ==
  /\ curried = NotCurried
  /\ LET ok == IF module = "function.js"
               THEN \/ (site = "method" /\ "value" \in CurryAspect)
                    \/ (site = "class" /\ "class" \in CurryAspect)
               ELSE site \in {"method", "class"}
     IN /\ curried' = [module |-> module, site |-> site, length |-> length,
                       installed |-> ok,
                       error |-> IF ok THEN "none" ELSE "TypeError"]
        /\ clast' = [NoCurryCall EXCEPT !.op = "decorate",
                       !.outcome = IF ok THEN "return" ELSE "throw",
                       !.value = IF ok THEN NoValue ELSE Err("TypeError")]
  /\ UNCHANGED <<partials, cprops, cinstance, ccalls, cinvoked>>

\* A call of the curried function (f = Root) or of a function it returned,
\* with or without `new`
CurryCall(f, this, args, new) ==
  /\ curried.installed
  /\ f = Root \/ f \in partials
  /\ new => curried.site = "class"
  /\ ccalls < MaxCalls
  /\ ccalls' = ccalls + 1
  /\ LET self == IF f = Root THEN this ELSE f.this
         arguments == f.args \o args
         finished(outcome, value, invoked) ==
           CurryDone(f, this, args, new, arguments, outcome, value, invoked)
     IN IF curried.site = "class" /\ new
        THEN \* `this instanceof curriedClass`
             /\ clast' = finished("throw", Err("TypeError"), FALSE)
             /\ UNCHANGED <<partials, cprops, cinstance, cinvoked>>
        ELSE IF Len(arguments) < curried.length
        THEN IF BindIs(curried.module) = "decorator"
             THEN LET b == BindDecorator(self, Argument(arguments, 1),
                                         Argument(arguments, 2), cprops)
                  IN /\ cprops' = b.props
                     /\ clast' = IF b.outcome = "throw"
                                 THEN finished("throw", Err("TypeError"), FALSE)
                                 ELSE finished("return", UndefinedResult, FALSE)
                     /\ UNCHANGED <<partials, cinstance, cinvoked>>
             ELSE LET bound_this == IF curried.site = "class" THEN "null" ELSE self
                  IN /\ partials' = partials \cup {[this |-> bound_this, args |-> arguments]}
                     /\ clast' = finished("return", Fn(bound_this, arguments), FALSE)
                     /\ UNCHANGED <<cprops, cinstance, cinvoked>>
        ELSE IF curried.site = "class"
        THEN \* `new (bind.bind(target, null)(...arguments))`
             /\ cinvoked' = Append(cinvoked, <<"new", arguments>>)
             /\ cinstance' = cinstance + 1
             /\ clast' = finished("return", Inst(cinstance), TRUE)
             /\ UNCHANGED <<partials, cprops>>
        ELSE \* `target.apply(this, arguments)`
             /\ cinvoked' = Append(cinvoked, <<self, arguments>>)
             /\ \E value \in Results : clast' = finished("return", value, TRUE)
             /\ UNCHANGED <<partials, cprops, cinstance>>
  /\ UNCHANGED curried

\* ---------- function.js: fetch without a fallback, fetch without a receiver
\* Calling the fallback of a fetch with a fault: null is taken for a function
\* that returns undefined
InvokeUnchecked(fallback) == "call"

\* `fallback()` of DefaultMap.fetch: calling null or undefined raises a
\* TypeError, there is no test of fallback before
Invoke(fallback) == IF fallback \in {"null", "undefined"} THEN "TypeError" ELSE "call"

\* WeakMap.prototype.set accepts objects as keys and raises a TypeError for
\* undefined
WeakKey(context) == context # "undefined"

\* The entries of the caches: <<cache, context, key, result>>
Entries(st) ==
  UNION { UNION { { <<c, r, k, st[c][r][k]>> : k \in DOMAIN st[c][r] }
                  : r \in DOMAIN st[c] }
          : c \in DOMAIN st }

\* Cache.fetch(context, parameters, fallback) with fallback null or undefined
FetchNull(c, context, parameters, fallback) ==
  /\ c # ClassCache
  /\ fallback \in {"null", "undefined"}
  /\ ncalls < MaxCalls
  /\ Len(stack) < MaxDepth
  /\ ncalls' = ncalls + 1
  /\ LET scopes == ScopeGet(store[c], context)
         k == keyFrom(parameters, [guuid |-> Cache_guuid, references |-> Cache_references])
         x == <<c, context, parameters>>
         after == x \in DOMAIN returned
         afterSettled == x \in DOMAIN settled
         ended(key, outcome, value) ==
           [Done(c, context, parameters, key, outcome, value, FALSE, after,
                 afterSettled) EXCEPT !.op = "fetch null"]
     IN /\ Cache_guuid' = k.reg.guuid
        /\ Cache_references' = k.reg.references
        /\ IF k.error # "none"
           THEN /\ store' = [store EXCEPT ![c] = scopes]
                /\ last' = ended(<<>>, "throw", Err(k.error))
                /\ UNCHANGED <<returned, settled>>
           ELSE IF Missing(scopes[context], k.key)
           THEN IF Invoke(fallback) = "TypeError"
                THEN /\ store' = [store EXCEPT ![c] = scopes]
                     /\ last' = ended(k.key, "throw", Err("TypeError"))
                     /\ UNCHANGED <<returned, settled>>
                ELSE /\ store' = [store EXCEPT ![c] =
                                    [scopes EXCEPT ![context] =
                                       StoreResult(@, k.key, UndefinedResult)]]
                     /\ last' = ended(k.key, "return", UndefinedResult)
                     /\ UNCHANGED <<returned, settled>>
           ELSE LET value == scopes[context][k.key]
                IN /\ store' = [store EXCEPT ![c] = scopes]
                   /\ last' = ended(k.key, "return", value)
                   /\ returned' = Remember(returned, x, value)
                   /\ settled' = IF Running(stack, c, context, k.key) THEN settled
                                 ELSE Remember(settled, x, value)
  /\ UNCHANGED <<stack, nextInstance, raised, computes, stored, reentered>>

\* Cache.fetch(undefined, parameters, fallback): `this.store.get(context)`
\* finds no scope, makes one and fails to store it; keyFrom is not reached
FetchUnbound(c, parameters) ==
  /\ c # ClassCache
  /\ ~WeakKey("undefined")
  /\ ncalls < MaxCalls
  /\ Len(stack) < MaxDepth
  /\ ncalls' = ncalls + 1
  /\ last' = [Done(c, "undefined", parameters, <<>>, "throw", Err("TypeError"),
                   FALSE, FALSE, FALSE) EXCEPT !.op = "fetch unbound"]
  /\ UNCHANGED <<store, Cache_guuid, Cache_references, stack, nextInstance,
                 raised, computes, stored, reentered, returned, settled>>

\* ------------------- function.js and descorators.js: memoized accessors
VARIABLES
  accessor,   \* what memoize was applied to and which module's memoize it was
  acache,     \* function.js: the `let cache` of memoize.accessor
  invalid,    \* function.js: the `let invalid` of memoize.accessor
  dcache,     \* descorators.js: the `cache` WeakMap, this -> value
  astack,     \* the getters and setters that are running, innermost last
  acalls,     \* reads and writes of the property made so far
  alast,      \* what the last finished read or write did
  agets,      \* the `this` of the getter's invocations, in order
  asets,      \* the <<this, value>> of the setter's invocations, in order
  atouched    \* the instances the property has been read or written on

accessorVars == <<accessor, acache, invalid, dcache, astack, acalls, alast,
                  agets, asets, atouched>>

\* The values written to the property
Written == {UndefinedResult, Val(1)}

NoAccessor == [module |-> "none", setter |-> FALSE, installed |-> FALSE]

\* The entry a read or write of the property on `this` works on: function.js
\* keeps one cache and one flag in the closure of memoize.accessor,
\* descorators.js keeps one WeakMap entry per `this`
Populated(this) ==
  IF accessor.module = "function.js" THEN ~invalid ELSE Has(dcache, this)

Cached(this) ==
  IF accessor.module = "function.js" THEN acache
  ELSE Get(dcache, this, UndefinedResult)

NoAccess == [op |-> "none", this |-> "none", written |-> NoValue,
             outcome |-> "none", value |-> NoValue, invoked |-> FALSE,
             populated |-> FALSE, cached |-> NoValue, first |-> FALSE,
             reentered |-> FALSE, populatedAfter |-> FALSE,
             cachedAfter |-> NoValue]

\* A finished read or write: populated and cached are the entry's state and
\* value when the call began, populatedAfter and cachedAfter the same when it
\* ended, first tells a read on an instance the property was never read or
\* written on before, reentered that the property was read or written
\* meanwhile
Access(f, outcome, value, invoked, populatedAfter, cachedAfter) ==
  [op |-> f.op, this |-> f.this, written |-> f.written, outcome |-> outcome,
   value |-> value, invoked |-> invoked, populated |-> f.populated,
   cached |-> f.cached, first |-> f.first, reentered |-> f.reentered,
   populatedAfter |-> populatedAfter, cachedAfter |-> cachedAfter]

AccessFrame(op, this, written) ==
  [op |-> op, this |-> this, written |-> written, populated |-> Populated(this),
   cached |-> Cached(this), first |-> (op = "read" /\ this \notin atouched),
   reentered |-> FALSE]

\* Every running getter and setter has seen another read or write begin
Reenter(stk) == [i \in 1..Len(stk) |-> [stk[i] EXCEPT !.reentered = TRUE]]

InitAccessor ==
  /\ accessor = NoAccessor
  /\ acache = UndefinedResult
  /\ invalid = TRUE
  /\ dcache = EmptyMap
  /\ astack = <<>>
  /\ acalls = 0
  /\ alast = NoAccess
  /\ agets = <<>>
  /\ asets = <<>>
  /\ atouched = {}

\* memoize applied to a property with a getter, and with or without a setter.
\* function.js: use's accessor branch installs the get and set that
\* memoize.accessor returns.  descorators.js: memoize installs memoizedGetter
\* and memoizedSetter.
AccessorDecorate(module, setter) ==
  /\ accessor = NoAccessor
  /\ accessor' = [module |-> module, setter |-> setter, installed |-> TRUE]
  /\ UNCHANGED <<acache, invalid, dcache, astack, acalls, alast, agets, asets,
                 atouched>>

\* The fallback of a read with a fault: the getter is not called
HitAlways(populated) == TRUE

\* `if (invalid)` of get(), `store.has(key)` of retrieve
Hit(populated) == populated

\* A read of the property on `this`, up to the call of the getter
Read(this) ==
  /\ accessor.installed
  /\ acalls < MaxCalls
  /\ Len(astack) < MaxDepth
  /\ acalls' = acalls + 1
  /\ atouched' = atouched \cup {this}
  /\ LET f == AccessFrame("read", this, NoValue)
     IN IF Hit(Populated(this))
        THEN /\ alast' = Access(f, "return", Cached(this), FALSE,
                                 Populated(this), Cached(this))
             /\ astack' = Reenter(astack)
             /\ UNCHANGED agets
        ELSE /\ astack' = Append(Reenter(astack), f)
             /\ agets' = Append(agets, this)
             /\ UNCHANGED alast
  /\ UNCHANGED <<accessor, acache, invalid, dcache, asets>>

\* The running getter returns: the value is stored and returned
GetterReturn(value) ==
  /\ astack # <<>>
  /\ LET f == astack[Len(astack)]
     IN /\ f.op = "read"
        /\ astack' = SubSeq(astack, 1, Len(astack) - 1)
        /\ IF accessor.module = "function.js"
           THEN acache' = value /\ invalid' = FALSE /\ UNCHANGED dcache
           ELSE dcache' = Put(dcache, f.this, value) /\ UNCHANGED <<acache, invalid>>
        /\ alast' = Access(f, "return", value, TRUE, TRUE, value)
  /\ UNCHANGED <<accessor, acalls, agets, asets, atouched>>

\* The running getter or setter throws: nothing more is assigned
AccessorThrow(error) ==
  /\ astack # <<>>
  /\ LET f == astack[Len(astack)]
     IN /\ astack' = SubSeq(astack, 1, Len(astack) - 1)
        /\ alast' = Access(f, "throw", error, TRUE,
                           Populated(f.this), Cached(f.this))
  /\ UNCHANGED <<accessor, acache, invalid, dcache, acalls, agets, asets, atouched>>

\* A write of value to the property on `this`, up to the call of the setter.
\* function.js: set(value) clears cache and invalid, then `setter.call`, which
\* throws when the property has no setter.  descorators.js: memoizedSetter.
Write(this, value) ==
  /\ accessor.installed
  /\ acalls < MaxCalls
  /\ Len(astack) < MaxDepth
  /\ acalls' = acalls + 1
  /\ LET f == AccessFrame("write", this, value)
     IN IF accessor.module = "function.js"
        THEN /\ acache' = UndefinedResult
             /\ invalid' = TRUE
             /\ UNCHANGED dcache
             /\ IF accessor.setter
                THEN /\ astack' = Append(Reenter(astack), f)
                     /\ asets' = Append(asets, <<this, value>>)
                     /\ UNCHANGED alast
                ELSE /\ alast' = Access(f, "throw", Err("TypeError"), FALSE,
                                         FALSE, UndefinedResult)
                     /\ astack' = Reenter(astack)
                     /\ UNCHANGED asets
        ELSE /\ UNCHANGED <<acache, invalid>>
             /\ IF accessor.setter
                THEN /\ astack' = Append(Reenter(astack), f)
                     /\ asets' = Append(asets, <<this, value>>)
                     /\ UNCHANGED <<alast, dcache>>
                ELSE IF value = UndefinedResult
                THEN /\ dcache' = [x \in DOMAIN dcache \ {this} |-> dcache[x]]
                     /\ alast' = Access(f, "return", UndefinedResult, FALSE,
                                         FALSE, UndefinedResult)
                     /\ astack' = Reenter(astack)
                     /\ UNCHANGED asets
                ELSE /\ alast' = Access(f, "throw", Err("TypeError"), FALSE,
                                         Populated(this), Cached(this))
                     /\ astack' = Reenter(astack)
                     /\ UNCHANGED <<asets, dcache>>
  /\ atouched' = atouched \cup {this}
  /\ UNCHANGED <<accessor, agets>>

\* The running setter returns.  function.js returns its result;
\* descorators.js stores its result as the cached value and returns that.
SetterReturn(value) ==
  /\ astack # <<>>
  /\ LET f == astack[Len(astack)]
     IN /\ f.op = "write"
        /\ astack' = SubSeq(astack, 1, Len(astack) - 1)
        /\ IF accessor.module = "function.js"
           THEN /\ UNCHANGED dcache
                /\ alast' = Access(f, "return", value, TRUE,
                                   Populated(f.this), Cached(f.this))
           ELSE /\ dcache' = Put(dcache, f.this, value)
                /\ alast' = Access(f, "return", value, TRUE, TRUE, value)
  /\ UNCHANGED <<accessor, acache, invalid, acalls, agets, asets, atouched>>

\* ------------------------------- function.js: memoize applied to a value
VARIABLES
  memoized,   \* what memoize was applied to and what the decoration left
  vcalls,     \* calls of the decorated function made so far
  vlast       \* what the last finished call did

valueVars == <<memoized, vcalls, vlast>>

\* What memoize is applied to: a method of a class body (a function without
\* `prototype`), a function expression held by a property, and a function
\* given alone, as in memoize(fn), which use takes for a class
ValueSites == {"method", "property", "plain"}

NotMemoized == [site |-> "none", installed |-> "none", error |-> "none"]

NoValueCall == [op |-> "none", this |-> "none", args |-> <<>>,
                outcome |-> "none", value |-> NoValue]

\* Whether a function has a `prototype` object: one written with `function`
\* does, a method of a class body does not
HasPrototype(site) == site # "method"

\* What memoize.value(target) returns: the function body ends after
\* `memoized.prototype = ...` without a return statement
ValueAdvice == "undefined"

\* use(aspect)(target, name, descriptor) with the aspect of memoize
MemoizeDecorate(site) ==
  /\ memoized = NotMemoized
  /\ memoized' =
       IF site = "plain"
       THEN \* name == null and descriptor == null: aspect.class(target)
            [site |-> site, installed |-> "MemoizedClass", error |-> "none"]
       ELSE IF ~HasPrototype(site)
       THEN \* Object.create(undefined) throws before value() ends
            [site |-> site, installed |-> "none", error |-> "TypeError"]
       ELSE \* descriptor.value = aspect.value(descriptor.value)
            [site |-> site, installed |-> ValueAdvice, error |-> "none"]
  /\ UNCHANGED <<vcalls, vlast>>

\* A call, without `new`, of what the decoration installed
ValueCall(this, args) ==
  /\ memoized.installed \in {"undefined", "MemoizedClass"}
  /\ vcalls < MaxCalls
  /\ vcalls' = vcalls + 1
  /\ vlast' = \* undefined is not a function; a class constructor cannot be
              \* invoked without `new`
              [op |-> "call", this |-> this, args |-> args,
               outcome |-> "throw", value |-> Err("TypeError")]
  /\ UNCHANGED memoized

\* `new` on the MemoizedClass that memoize(fn) returned
ValueConstruct(parameters) ==
  /\ memoized.installed = "MemoizedClass"
  /\ Construct(parameters)

\* ------------------------- function.js: the objects the caches refer to
VARIABLES
  live,       \* the objects the program holds a reference to
  collected   \* the objects the garbage collector has reclaimed

heapVars == <<live, collected>>

\* The objects: the receivers and one object passed as an argument
HeapArgs == {"o1"}
HeapObjects == Receivers \cup HeapArgs
HeapValue(o) == Obj("1")

\* The argument lists of the fetch calls made while objects come and go
HeapParams == { <<Str(<<"a">>)>>, <<Obj("1")>> }

\* A result that is a reference to an object
Ref(o) == [kind |-> "reference", n |-> 0, name |-> o]

RefsOf(value) == IF value.kind = "reference" THEN {value.name} ELSE {}

\* The objects among the arguments of a call
ArgObjects(parameters) ==
  { o \in HeapArgs : \E i \in 1..Len(parameters) : parameters[i] = HeapValue(o) }

InitHeap ==
  /\ live = HeapObjects
  /\ collected = {}

\* The keys a map keeps reachable, with a fault: `new Map()` in the place of
\* `new WeakMap()`
KeysHeldStrongly(m) == DOMAIN m

\* The keys a map keeps reachable: Cache.store and Cache.references wrap
\* `new WeakMap()`, which holds no key
KeysHeld(m) == {}

\* The keys of an argument table: the strings keyFrom returns, which refer to
\* no object; its values: the results, as the fallbacks returned them
TableRefs(table) == UNION { RefsOf(table[k]) : k \in DOMAIN table }

\* What the program and its running calls refer to
Roots ==
  live \cup { stack[i].context : i \in 1..Len(stack) }
       \cup UNION { ArgObjects(stack[i].parameters) : i \in 1..Len(stack) }

\* The objects one step further: a WeakMap keeps the value of a key reachable
\* as long as the key is
Further(objects) ==
  objects \cup UNION { UNION { TableRefs(store[c][r])
                               : r \in (DOMAIN store[c]) \cap objects }
                       : c \in Caches }

RECURSIVE ReachFrom(_, _)
ReachFrom(objects, n) ==
  IF n = 0 THEN objects ELSE ReachFrom(Further(objects), n - 1)

\* The objects reachable from the program, the caches and the registry: the
\* Cache objects and the registry are held by the decorated functions
Reachable ==
  ReachFrom(Roots \cup UNION { KeysHeld(store[c]) : c \in Caches }
                  \cup { o \in HeapArgs : HeapValue(o) \in KeysHeld(Cache_references) },
            Cardinality(HeapObjects))

\* `map.delete(o)`, as the collector does it to a WeakMap
Sweep(m, o) == [x \in (DOMAIN m) \ {o} |-> m[x]]

\* A fetch by a program that holds the receiver and the arguments; a stored
\* result it gets back is a reference it holds from then on
HeapFetch(c, context, parameters) ==
  /\ context \in live
  /\ ArgObjects(parameters) \subseteq live
  /\ FetchCall(c, context, parameters)
  /\ LET k == keyFrom(parameters, [guuid |-> Cache_guuid, references |-> Cache_references])
     IN live' = IF /\ k.error = "none"
                   /\ Has(store[c], context)
                   /\ Has(store[c][context], k.key)
                THEN live \cup RefsOf(store[c][context][k.key])
                ELSE live
  /\ UNCHANGED collected

\* A fallback returns a value or an object within its reach
HeapReturn(value) ==
  /\ RefsOf(value) \subseteq Roots
  /\ FallbackReturn(value)
  /\ live' = live \cup RefsOf(value)
  /\ UNCHANGED collected

\* The program forgets an object
Drop(o) ==
  /\ o \in live
  /\ live' = live \ {o}
  /\ UNCHANGED <<collected, cacheVars>>

\* The collector reclaims an object that is not reachable: the WeakMaps lose
\* the entries it is the key of
Collect(o) ==
  /\ o \in HeapObjects \ collected
  /\ o \notin Reachable
  /\ collected' = collected \cup {o}
  /\ store' = [c \in Caches |-> Sweep(store[c], o)]
  /\ Cache_references' = IF o \in HeapArgs THEN Sweep(Cache_references, HeapValue(o))
                         ELSE Cache_references
  /\ UNCHANGED <<live, Cache_guuid, stack, nextInstance, ncalls, last, raised,
                 computes, stored, reentered, returned, settled>>

\* ------------------------------------ function.js: what one fetch changes
VARIABLES
  entered,      \* for each running fallback, the caches as its fetch found them
  framed        \* the last finished fetch: the caches at its call and its return

frameVars == <<entered, framed>>

\* The caches and the registry of surrogate ids, as a fetch finds them;
\* calls counts the fetch itself
Snapshot == [entries |-> Entries(store), guuid |-> Cache_guuid,
             references |-> Cache_references, calls |-> ncalls + 1]

\* A finished fetch: whether it hit, missed or threw, its entry, the entries
\* of all caches at its call (before) and at its return (after), whether the
\* registry of surrogate ids is as it was, and whether its fallback fetched
NoFrame == [op |-> "none", entry |-> <<"none", "none", <<>>>>, value |-> NoValue,
            before |-> {}, after |-> {}, registry |-> TRUE, nested |-> FALSE]

InitFrame ==
  /\ entered = <<>>
  /\ framed = NoFrame

\* The frame of the fetch that finished in this step, from the snapshot
\* taken at its call
Framed(op, at) ==
  [op |-> op,
   entry |-> <<last'.cache, last'.context, last'.key>>,
   value |-> last'.value,
   before |-> at.entries,
   after |-> Entries(store'),
   registry |-> (Cache_guuid' = at.guuid /\ Cache_references' = at.references),
   nested |-> (ncalls' # at.calls)]

\* A fetch is called: it returns at once on a hit and when keyFrom throws,
\* otherwise its fallback starts
Entered ==
  IF Len(stack') > Len(stack)
  THEN /\ entered' = Append(entered, Snapshot)
       /\ UNCHANGED framed
  ELSE /\ framed' = Framed(IF last'.outcome = "return" THEN "hit" ELSE "throw",
                           Snapshot)
       /\ UNCHANGED entered

\* The innermost fallback ends, and its fetch with it
Left ==
  /\ entered' = SubSeq(entered, 1, Len(entered) - 1)
  /\ framed' = Framed(IF last'.outcome = "return" THEN "miss" ELSE "throw",
                      entered[Len(entered)])

\* ------------------------------------------------------------ use.js: use
VARIABLES
  udescriptor,  \* the property descriptor (or the class) handed to the decorator
  ureturned,    \* what the decorator returned
  uthrown,      \* the error the decorator raised, "none" when it returned
  uses,         \* decorations made
  ulast         \* the last decoration: its aspect and the descriptor it was given

useVars == <<udescriptor, ureturned, uthrown, uses, ulast>>

MaxUses == 2       \* decorators stacked on one property

\* A function is the sequence of the advices that wrapped it, outermost
\* first, ending in the name of the function written in the class body
NoFn == <<"undefined">>
Getter == <<"getter">>
Setter == <<"setter">>
Method == <<"method">>
Class == <<"class">>

\* The keys an aspect may carry
AspectKeys == {"class", "value", "accessor", "get", "set"}

\* The forms of the value an accessor advice returns: the one use reads,
\* and the one the typedef use~accessor documents
AccessorShapes == {"get/set", "getter/setter"}

\* use(advice): the one advice under the keys class, value, get and set
Wrapped ==
  [class |-> "advice", value |-> "advice", accessor |-> "undefined",
   get |-> "advice", set |-> "advice"]

\* use(aspect): an object carrying the advices named in keys; its accessor
\* advice returns a value of the given shape
AspectOf(keys, shape) ==
  [k \in AspectKeys |->
     IF k \notin keys THEN "undefined"
     ELSE IF k = "accessor" THEN shape ELSE k]

Aspects ==
  {Wrapped} \cup { AspectOf(keys, shape) : keys \in SUBSET AspectKeys,
                                           shape \in AccessorShapes }

\* advice(target): the wrapper the advice returns
Apply(advice, target) == <<advice>> \o target

\* aspect.accessor(getter, setter), read by `const { get, set } = ...`
ApplyAccessor(shape, getter, setter) ==
  IF shape = "get/set"
  THEN [get |-> <<"accessor.get">> \o getter \o setter,
        set |-> <<"accessor.set">> \o getter \o setter]
  ELSE [get |-> NoFn, set |-> NoFn]

\* What a decorator is applied to: a class, or the descriptor of a method
\* or of an accessor
NoDescriptor == [site |-> "none", value |-> NoFn, get |-> NoFn, set |-> NoFn]
ClassTarget == [site |-> "class", value |-> Class, get |-> NoFn, set |-> NoFn]
ValueDescriptor == [site |-> "value", value |-> Method, get |-> NoFn, set |-> NoFn]
AccessorDescriptor(get, set) ==
  [site |-> "accessor", value |-> NoFn, get |-> get, set |-> set]

Descriptors ==
  {ClassTarget, ValueDescriptor}
    \cup { AccessorDescriptor(get, set) : get \in {Getter, NoFn}, set \in {Setter, NoFn} }

NoUse == [aspect |-> AspectOf({}, "get/set"), before |-> NoDescriptor]

InitUse ==
  /\ udescriptor = NoDescriptor
  /\ ureturned = NoFn
  /\ uthrown = "none"
  /\ uses = 0
  /\ ulast = NoUse

\* The class body defines a property (or the class itself): the value the
\* first decorator will be given
Describe(d) ==
  /\ uses = 0
  /\ udescriptor = NoDescriptor
  /\ udescriptor' = d
  /\ UNCHANGED <<ureturned, uthrown, uses, ulast>>

\* The advice use hands the setter's advice: descriptor.get, as it is when
\* line 102 runs, after line 101 has replaced it
SetAdviceTarget(d) == d.get

\* use(aspect)(target, name, descriptor)
Use(aspect) ==
  /\ uses < MaxUses
  /\ udescriptor # NoDescriptor
  /\ uthrown = "none"
  /\ uses' = uses + 1
  /\ ulast' = [aspect |-> aspect, before |-> udescriptor]
  /\ \/ /\ udescriptor.site = "class"
        /\ IF aspect.class = "undefined"
           THEN /\ uthrown' = "TypeError"
                /\ UNCHANGED <<udescriptor, ureturned>>
           ELSE /\ ureturned' = Apply(aspect.class, udescriptor.value)
                /\ udescriptor' = [udescriptor EXCEPT !.value = Apply(aspect.class, @)]
                /\ UNCHANGED uthrown
     \/ /\ udescriptor.site = "value"
        /\ IF aspect.value = "undefined"
           THEN /\ uthrown' = "TypeError"
                /\ UNCHANGED <<udescriptor, ureturned>>
           ELSE /\ udescriptor' = [udescriptor EXCEPT !.value = Apply(aspect.value, @)]
                /\ UNCHANGED <<ureturned, uthrown>>
     \/ /\ udescriptor.site = "accessor"
        /\ IF aspect.accessor # "undefined"
           THEN LET pair == ApplyAccessor(aspect.accessor, udescriptor.get,
                                          udescriptor.set)
                IN udescriptor' = [udescriptor EXCEPT !.get = pair.get,
                                                      !.set = pair.set]
           ELSE LET got == IF aspect.get # "undefined"
                           THEN [udescriptor EXCEPT !.get = Apply(aspect.get, @)]
                           ELSE udescriptor
                IN udescriptor' =
                     IF aspect.set # "undefined"
                     THEN [got EXCEPT !.set = Apply(aspect.set, SetAdviceTarget(got))]
                     ELSE got
        /\ UNCHANGED <<ureturned, uthrown>>

\* -------------------------------------------------- function.js: throttle
\* Line 79 of function.js reads `return debounce() {`; leading is modelled as
\* the function expression `return function debounce() {` that falling has.
VARIABLES
  throttled,    \* the decoration: the edge, and what the closure of debounce holds
  timer,        \* `timer` of the closure: the pending timeout, or null
  now,          \* the time
  tcalls,       \* calls of debounce made
  tlast,        \* the last call of debounce, or the last timeout that ran
  invocations   \* the invocations of the target, in order

throttleVars == <<throttled, timer, now, tcalls, tlast, invocations>>

MaxTime == 4       \* the time stops here
Waits == {1, 2}    \* the `wait` given to throttle
Edges == {"leading", "falling", "rising"}
ThrottleSites == {"value", "accessor", "class"}
ThrottleParams == { <<>>, <<Num("1")>> }

\* The values the parameters of leading and falling are given
Milliseconds(n) == [type |-> "number", n |-> n]
TargetFunction == [type |-> "function", n |-> 0]
NotPassed == [type |-> "undefined", n |-> 0]

\* Function.prototype.bind(thisArg, ...args): the first value is the `this`
\* of the bound function, the others come before the arguments of its calls
Bind(given) == [this |-> Head(given), args |-> Tail(given)]

\* A call of the bound leading or falling: its parameters (wait, target)
Parameters(b, args) ==
  LET all == b.args \o args
  IN [this |-> b.this,
      wait |-> IF Len(all) >= 1 THEN all[1] ELSE NotPassed,
      target |-> IF Len(all) >= 2 THEN all[2] ELSE NotPassed]

\* setTimeout(callback, delay): the numbers of time units it may wait at
\* least; a delay that is no number is NaN, taken for 0 or for 1
Delays(delay) == IF delay.type = "number" THEN {delay.n} ELSE {0, 1}

\* typeof target.apply === "function"
Callable(target) == target.type = "function"

NoTimer == [due |-> -1, this |-> "none", parameters |-> <<>>]
NotThrottled == [edge |-> "none", site |-> "none", given |-> 0, wait |-> NotPassed,
                 target |-> NotPassed, installed |-> FALSE, error |-> "none"]
NoThrottledCall == [op |-> "none", this |-> "none", parameters |-> <<>>,
                    pending |-> FALSE, armed |-> FALSE, outcome |-> "none",
                    invoked |-> FALSE, at |-> 0]

InitThrottle ==
  /\ throttled = NotThrottled
  /\ timer = NoTimer
  /\ now = 0
  /\ tcalls = 0
  /\ tlast = NoThrottledCall
  /\ invocations = <<>>

\* throttle(wait, edge) and the decorator it returns applied to a method, an
\* accessor or a class
Throttle(wait, edge, site) ==
  /\ throttled = NotThrottled
  /\ throttled' =
       IF edge \notin {"leading", "falling"}
       THEN [NotThrottled EXCEPT !.edge = edge, !.given = wait, !.error = "TypeError"]
       ELSE IF site # "value"
       THEN [NotThrottled EXCEPT !.edge = edge, !.site = site, !.given = wait,
                                 !.error = "TypeError"]
       ELSE LET ps == Parameters(Bind(<<Milliseconds(wait)>>), <<TargetFunction>>)
            IN [edge |-> edge, site |-> site, given |-> wait, wait |-> ps.wait,
                target |-> ps.target, installed |-> TRUE, error |-> "none"]
  /\ UNCHANGED <<timer, now, tcalls, tlast, invocations>>

\* target.apply(this, parameters): the invocation, or the TypeError of a
\* target that is no function
TargetApply(op, this, parameters, pending, armed, sync) ==
  IF Callable(throttled.target)
  THEN /\ invocations' = Append(invocations, [at |-> now, this |-> this,
                                              parameters |-> parameters,
                                              sync |-> sync])
       /\ tlast' = [op |-> op, this |-> this, parameters |-> parameters,
                    pending |-> pending, armed |-> armed, outcome |-> "return",
                    invoked |-> TRUE, at |-> now]
  ELSE /\ tlast' = [op |-> op, this |-> this, parameters |-> parameters,
                    pending |-> pending, armed |-> armed, outcome |-> "TypeError",
                    invoked |-> FALSE, at |-> now]
       /\ UNCHANGED invocations

\* A call of debounce, of leading or of falling
ThrottledCall(this, parameters) ==
  /\ throttled.installed
  /\ tcalls < MaxCalls
  /\ tcalls' = tcalls + 1
  /\ LET pending == timer # NoTimer
     IN IF throttled.edge = "falling"
        THEN /\ IF pending
                THEN UNCHANGED timer
                ELSE \E d \in Delays(throttled.wait) :
                       timer' = [due |-> now + d, this |-> this,
                                 parameters |-> parameters]
             /\ tlast' = [op |-> "call", this |-> this, parameters |-> parameters,
                          pending |-> pending, armed |-> ~pending,
                          outcome |-> "return", invoked |-> FALSE, at |-> now]
             /\ UNCHANGED invocations
        ELSE /\ \E d \in Delays(throttled.wait) :
                  timer' = [due |-> now + d, this |-> "none", parameters |-> <<>>]
             /\ IF pending
                THEN /\ tlast' = [op |-> "call", this |-> this,
                                  parameters |-> parameters, pending |-> TRUE,
                                  armed |-> TRUE, outcome |-> "return",
                                  invoked |-> FALSE, at |-> now]
                     /\ UNCHANGED invocations
                ELSE TargetApply("call", this, parameters, FALSE, TRUE, TRUE)
  /\ UNCHANGED <<throttled, now>>

\* The callback of setTimeout runs, at its time or later
Expire ==
  /\ timer # NoTimer
  /\ now >= timer.due
  /\ timer' = NoTimer
  /\ IF throttled.edge = "falling"
     THEN TargetApply("expire", timer.this, timer.parameters, TRUE, FALSE, FALSE)
     ELSE /\ tlast' = [op |-> "expire", this |-> "none", parameters |-> <<>>,
                       pending |-> TRUE, armed |-> FALSE, outcome |-> "return",
                       invoked |-> FALSE, at |-> now]
          /\ UNCHANGED invocations
  /\ UNCHANGED <<throttled, now, tcalls>>

\* Time passes
Tick ==
  /\ now < MaxTime
  /\ now' = now + 1
  /\ UNCHANGED <<throttled, timer, tcalls, tlast, invocations>>

\* ------------------------------------------------------ the specifications
adviceVars == <<useVars, frameVars, throttleVars>>

wrapVars == <<onceVars, curryVars, accessorVars, valueVars, heapVars, adviceVars>>

InitValue ==
  /\ memoized = NotMemoized
  /\ vcalls = 0
  /\ vlast = NoValueCall

InitAdvice == InitUse /\ InitFrame /\ InitThrottle

InitWrap == InitOnce /\ InitCurry /\ InitAccessor /\ InitValue /\ InitHeap /\ InitAdvice

\* What the steps of one decorated function leave alone
exceptOnce == <<cacheVars, methodVars, keyVars, curryVars, accessorVars, valueVars,
                heapVars,
   adviceVars>>
exceptCurry == <<cacheVars, methodVars, keyVars, onceVars, accessorVars, valueVars,
                 heapVars,
   adviceVars>>
exceptAccessor == <<cacheVars, methodVars, keyVars, onceVars, curryVars, valueVars,
                    heapVars,
   adviceVars>>
exceptValue == <<cacheVars, methodVars, keyVars, onceVars, curryVars, accessorVars,
                 heapVars,
   adviceVars>>
exceptCache == <<methodVars, keyVars, onceVars, curryVars, accessorVars, adviceVars>>
exceptHeap == <<methodVars, keyVars, onceVars, curryVars, accessorVars, valueVars, adviceVars>>

vars == <<cacheVars, methodVars, keyVars, wrapVars>>

\* function.js: fetch calls on the caches and constructions of a memoized class
Init == InitCache /\ InitMethods /\ IdleKeys /\ InitWrap

Next ==
  \/ \E c \in Caches, context \in Receivers, parameters \in FetchParams :
       FetchCall(c, context, parameters) /\ UNCHANGED <<methodVars, keyVars, wrapVars>>
  \/ \E parameters \in FetchParams :
       Construct(parameters) /\ UNCHANGED <<methodVars, keyVars, wrapVars>>
  \/ \E value \in Results :
       FallbackReturn(value) /\ UNCHANGED <<methodVars, keyVars, wrapVars>>
  \/ ConstructorReturn /\ UNCHANGED <<methodVars, keyVars, wrapVars>>
  \/ \E error \in Thrown :
       FallbackThrow(error) /\ UNCHANGED <<methodVars, keyVars, wrapVars>>

Spec == Init /\ [][Next]_vars

\* descorators.js: calls of two memoized methods
NextMethods ==
  \/ \E m \in Methods, this \in Receivers, args \in MethodArgs :
       MethodCall(m, this, args) /\ UNCHANGED <<cacheVars, keyVars, wrapVars>>
  \/ \E value \in Results :
       MethodReturn(value) /\ UNCHANGED <<cacheVars, keyVars, wrapVars>>
  \/ \E error \in Thrown :
       MethodThrow(error) /\ UNCHANGED <<cacheVars, keyVars, wrapVars>>

SpecMethods == Init /\ [][NextMethods]_vars

\* The key functions applied to every pair of argument lists
InitKeys ==
  /\ InitCache
  /\ InitMethods
  /\ InitWrap
  /\ p \in ArgLists
  /\ q \in ArgLists
  /\ hashed = FALSE
  /\ fromP = NoKey
  /\ fromQ = NoKey
  /\ forP = NoKey
  /\ forQ = NoKey

NextKeys == Hash /\ UNCHANGED <<cacheVars, methodVars, wrapVars>>

SpecKeys == InitKeys /\ [][NextKeys]_vars

\* function.js: calls of a function wrapped by once
NextOnce ==
  \/ \E type \in TargetTypes :
       OnceDecorate(type) /\ UNCHANGED exceptOnce
  \/ \E this \in Thises, args \in CallArgLists :
       OnceCall(this, args) /\ UNCHANGED exceptOnce
  \/ \E value \in Results :
       OnceTargetReturn(value) /\ UNCHANGED exceptOnce
  \/ \E error \in Thrown :
       OnceTargetThrow(error) /\ UNCHANGED exceptOnce

SpecOnce == Init /\ [][NextOnce]_vars

\* The functions a call may be made on: the curried one and the ones returned
CurryCallees == {Root} \cup partials

\* function.js: curry applied through use, and calls of what it installed
NextCurry ==
  \/ \E site \in CurrySites, length \in TargetLengths :
       CurryDecorate("function.js", site, length)
         /\ UNCHANGED exceptCurry
  \/ \E f \in CurryCallees, this \in Thises, args \in CurryArgs, new \in BOOLEAN :
       CurryCall(f, this, args, new)
         /\ UNCHANGED exceptCurry

SpecCurry == Init /\ [][NextCurry]_vars

\* descorators.js: curry applied to a method or a class, and calls of what it
\* installed and of the functions those calls returned
NextCurried ==
  \/ \E site \in {"method", "class"}, length \in TargetLengths :
       CurryDecorate("descorators.js", site, length)
         /\ UNCHANGED exceptCurry
  \/ \E f \in CurryCallees, this \in Thises, args \in CurryArgs, new \in BOOLEAN :
       CurryCall(f, this, args, new)
         /\ UNCHANGED exceptCurry

SpecCurried == Init /\ [][NextCurried]_vars

\* function.js: memoize applied to an accessor through use, reads and writes
\* of the property, and the ends of its getter and setter
NextAccessor ==
  \/ \E setter \in BOOLEAN :
       AccessorDecorate("function.js", setter) /\ UNCHANGED exceptAccessor
  \/ \E this \in Receivers : Read(this) /\ UNCHANGED exceptAccessor
  \/ \E this \in Receivers, value \in Written :
       Write(this, value) /\ UNCHANGED exceptAccessor
  \/ \E value \in Results : GetterReturn(value) /\ UNCHANGED exceptAccessor
  \/ \E value \in Results \cup {UndefinedResult} :
       SetterReturn(value) /\ UNCHANGED exceptAccessor
  \/ \E error \in Thrown : AccessorThrow(error) /\ UNCHANGED exceptAccessor

SpecAccessor == Init /\ [][NextAccessor]_vars

\* descorators.js: the same for its memoize
NextMemoizedAccessor ==
  \/ \E setter \in BOOLEAN :
       AccessorDecorate("descorators.js", setter) /\ UNCHANGED exceptAccessor
  \/ \E this \in Receivers : Read(this) /\ UNCHANGED exceptAccessor
  \/ \E this \in Receivers, value \in Written :
       Write(this, value) /\ UNCHANGED exceptAccessor
  \/ \E value \in Results : GetterReturn(value) /\ UNCHANGED exceptAccessor
  \/ \E value \in Results \cup {UndefinedResult} :
       SetterReturn(value) /\ UNCHANGED exceptAccessor
  \/ \E error \in Thrown : AccessorThrow(error) /\ UNCHANGED exceptAccessor

SpecMemoizedAccessor == Init /\ [][NextMemoizedAccessor]_vars

\* function.js: memoize applied through use to a method, to a function held
\* by a property and to a function alone, and the calls of what it installed
NextValue ==
  \/ \E site \in ValueSites : MemoizeDecorate(site) /\ UNCHANGED exceptValue
  \/ \E this \in Thises, args \in FetchParams :
       ValueCall(this, args) /\ UNCHANGED exceptValue
  \/ \E parameters \in FetchParams :
       ValueConstruct(parameters) /\ UNCHANGED <<exceptCache, valueVars, heapVars>>
  \/ ConstructorReturn /\ UNCHANGED <<exceptCache, valueVars, heapVars>>
  \/ \E error \in Thrown :
       FallbackThrow(error) /\ UNCHANGED <<exceptCache, valueVars, heapVars>>

SpecValue == Init /\ [][NextValue]_vars

\* The fallbacks that are no functions
NoFunction == {"null", "undefined"}

\* function.js: fetch calls with and without a fallback and a receiver
NextContract ==
  \/ \E c \in Caches, context \in Receivers, parameters \in FetchParams :
       FetchCall(c, context, parameters) /\ UNCHANGED <<exceptCache, valueVars, heapVars>>
  \/ \E c \in Caches, context \in Receivers, parameters \in FetchParams,
        fallback \in NoFunction :
       FetchNull(c, context, parameters, fallback)
         /\ UNCHANGED <<exceptCache, valueVars, heapVars>>
  \/ \E c \in Caches, parameters \in FetchParams :
       FetchUnbound(c, parameters) /\ UNCHANGED <<exceptCache, valueVars, heapVars>>
  \/ \E value \in Results :
       FallbackReturn(value) /\ UNCHANGED <<exceptCache, valueVars, heapVars>>
  \/ \E error \in Thrown :
       FallbackThrow(error) /\ UNCHANGED <<exceptCache, valueVars, heapVars>>

SpecContract == Init /\ [][NextContract]_vars

\* The results of the fallbacks: values, and references to objects
HeapResults == {Val(1)} \cup { Ref(o) : o \in HeapObjects }

\* function.js: fetch calls, while the program forgets objects and the
\* collector reclaims them
NextHeap ==
  \/ \E c \in Caches, context \in Receivers, parameters \in HeapParams :
       HeapFetch(c, context, parameters) /\ UNCHANGED exceptHeap
  \/ \E value \in HeapResults : HeapReturn(value) /\ UNCHANGED exceptHeap
  \/ \E error \in Thrown :
       FallbackThrow(error) /\ UNCHANGED <<exceptHeap, heapVars>>
  \/ \E o \in HeapObjects : Drop(o) /\ UNCHANGED exceptHeap
  \/ \E o \in HeapObjects : Collect(o) /\ UNCHANGED exceptHeap

SpecHeap == Init /\ [][NextHeap]_vars

\* What the steps of use leave alone
exceptUse == <<cacheVars, methodVars, keyVars, onceVars, curryVars, accessorVars,
               valueVars, heapVars, frameVars, throttleVars>>

\* use.js: decorators made by use, stacked on a class, a method or an accessor
NextUse ==
  \/ \E d \in Descriptors : Describe(d) /\ UNCHANGED exceptUse
  \/ \E aspect \in Aspects : Use(aspect) /\ UNCHANGED exceptUse

SpecUse == Init /\ [][NextUse]_vars


\* What the steps of a framed fetch leave alone
exceptFrame == <<methodVars, keyVars, onceVars, curryVars, accessorVars, valueVars,
                 heapVars, useVars, throttleVars>>

\* The argument lists of the framed fetches: a string, and an object
FrameParams == { <<Str(<<"a">>)>>, <<Obj("1")>> }

\* function.js: fetch calls on two caches, each compared with the caches as
\* they were when it was called
NextFrame ==
  \/ \E c \in Caches, context \in Receivers, parameters \in FrameParams :
       FetchCall(c, context, parameters) /\ Entered /\ UNCHANGED exceptFrame
  \/ \E parameters \in FrameParams :
       Construct(parameters) /\ Entered /\ UNCHANGED exceptFrame
  \/ \E value \in Results :
       FallbackReturn(value) /\ Left /\ UNCHANGED exceptFrame
  \/ ConstructorReturn /\ Left /\ UNCHANGED exceptFrame
  \/ \E error \in Thrown :
       FallbackThrow(error) /\ Left /\ UNCHANGED exceptFrame

SpecFrame == Init /\ [][NextFrame]_vars

\* What the steps of a throttled function leave alone
exceptThrottle == <<cacheVars, methodVars, keyVars, onceVars, curryVars,
                    accessorVars, valueVars, heapVars, useVars, frameVars>>

\* function.js: throttle applied through use, calls of what it installed,
\* and its timeouts
NextThrottle ==
  \/ \E wait \in Waits, edge \in Edges, site \in ThrottleSites :
       Throttle(wait, edge, site) /\ UNCHANGED exceptThrottle
  \/ \E this \in Thises, parameters \in ThrottleParams :
       ThrottledCall(this, parameters) /\ UNCHANGED exceptThrottle
  \/ Expire /\ UNCHANGED exceptThrottle
  \/ Tick /\ UNCHANGED exceptThrottle

SpecThrottle == Init /\ [][NextThrottle]_vars

\* ================================================================ properties
LastX == <<last.cache, last.context, last.parameters>>
LastT == <<last.cache, last.context, last.key>>
Returned == last.op = "fetch" /\ last.outcome = "return"
Triples == DOMAIN computes

\* The fallbacks of t that are running
RunningCount(t) ==
  Cardinality({ i \in 1..Len(stack) :
                  <<stack[i].cache, stack[i].context, stack[i].key>> = t })

\* C1 as stated: a fetch called after a fetch of the same cache, receiver and
\* argument list has returned v returns v and does not invoke its fallback.
C1_AsStated ==
  (last.op = "fetch" /\ last.after)
    => (last.outcome = "return" /\ ~last.invoked /\ last.value = returned[LastX])

\* C1, amended: a fetch called after a fetch of the same cache, receiver and
\* argument list has returned v while no fallback of that cache, receiver and
\* key was running, returns v and does not invoke its fallback.
C1_HitAfterSettled ==
  (last.op = "fetch" /\ last.afterSettled)
    => (last.outcome = "return" /\ ~last.invoked /\ last.value = settled[LastX])

\* C1 witness: a second fetch has returned the settled value, after a fetch
\* of another argument list was made in between
C1_Witness ==
  /\ last.op = "fetch" /\ last.afterSettled /\ Returned
  /\ \E x \in DOMAIN settled : x # LastX /\ x[1] = last.cache /\ x[2] = last.context

\* C2 as stated: per cache, receiver and key the fallback is invoked at most
\* once and at most one result is ever stored.
C2_AsStated ==
  \A t \in Triples : computes[t] <= 1 /\ Len(Get(stored, t, <<>>)) <= 1

\* C2, amended: per cache, receiver and key whose fallback was never invoked
\* while a fallback of the same three was running, at most one invocation of
\* the fallback returns, none runs once one has returned, and at most one
\* result is ever stored; an invocation that throws may be followed by another.
C2_OneResult ==
  \A t \in Triples \ reentered :
    Len(Get(stored, t, <<>>)) + RunningCount(t) <= 1

\* C2 witness: a fallback threw, the next fetch of the same cache, receiver
\* and key invoked its fallback, stored the one result, and a third was a hit
C2_Witness ==
  /\ Returned /\ ~last.invoked
  /\ LastT \in Triples \ reentered
  /\ computes[LastT] = 2
  /\ Len(stored[LastT]) = 1

\* A step in which a fallback that was running throws, with that fallback
ThrowStep == last' # last /\ last'.outcome = "throw" /\ last'.invoked
Thrower == stack[Len(stack)]

\* A step that is a call of fetch with last's cache, context and parameters
RetryStep ==
  /\ ncalls' = ncalls + 1
  /\ IF Len(stack') > Len(stack)
     THEN LET f == stack'[Len(stack')]
          IN <<f.cache, f.context, f.parameters>> = LastX
     ELSE <<last'.cache, last'.context, last'.parameters>> = LastX

\* C3 as stated: when a fallback has thrown during fetch(r, A, fallback), no
\* entry is stored for r and the key of A.
C3_AsStated ==
  (last.op = "fetch" /\ last.outcome = "throw" /\ last.invoked)
    => ~Has(store[last.cache][last.context], last.key)

\* C3, amended: when a fallback throws during fetch(r, A, fallback), the same
\* error reaches the caller and fetch stores nothing, so every entry is as it
\* was when the fallback threw; unless a fetch made inside the fallback has
\* stored a result for r and the key of A, no entry is stored for them, and
\* whenever none is, the next fetch(r, A, fallback') invokes fallback'.
C3_ThrowStoresNothing ==
  /\ [][ThrowStep =>
          /\ store' = store
          /\ last'.value = raised'
          /\ (Len(Get(stored, <<Thrower.cache, Thrower.context, Thrower.key>>, <<>>))
                = Thrower.stored0)
               => ~Has(store'[Thrower.cache][Thrower.context], Thrower.key)]_vars
  /\ [][(/\ last.op = "fetch" /\ last.outcome = "throw" /\ last.invoked
         /\ ~Has(store[last.cache][last.context], last.key)
         /\ RetryStep)
          => Len(stack') = Len(stack) + 1]_vars

\* C3 witness: a fallback threw, nothing is stored for its receiver and key
\* while another entry is, and the fetch is being retried: its fallback runs
C3_Witness ==
  /\ last.op = "fetch" /\ last.outcome = "throw" /\ last.invoked
  /\ ~Has(store[last.cache][last.context], last.key)
  /\ DOMAIN store[last.cache][last.context] # {}
  /\ \E i \in 1..Len(stack) :
       <<stack[i].cache, stack[i].context, stack[i].parameters>> = LastX

C9_AsStated ==
  [][\A c \in Caches : \A r \in DOMAIN store[c] : \A k \in DOMAIN store[c][r] :
       /\ Has(store'[c], r)
       /\ Has(store'[c][r], k)
       /\ store'[c][r][k] = store[c][r][k]]_vars

\* C9, amended: once a cache holds v for a receiver and a key while no
\* fallback of that cache, receiver and key is running, it holds v in every
\* later state; an entry is replaced only by the result of a fallback that
\* was already running when the entry was stored.
C9_EntriesKept ==
  [][\A c \in Caches : \A r \in DOMAIN store[c] : \A k \in DOMAIN store[c][r] :
       ~Running(stack, c, r, k) =>
         /\ Has(store'[c], r)
         /\ Has(store'[c][r], k)
         /\ store'[c][r][k] = store[c][r][k]
         /\ ~Running(stack', c, r, k)]_vars

\* C9 witness: a receiver has two entries, stored one after the other, and
\* the last fetch was a hit
C9_Witness ==
  /\ Returned /\ ~last.invoked
  /\ Cardinality(DOMAIN store[last.cache][last.context]) >= 2

\* C10 as stated: every construction of a memoized class that returns gives
\* the instance first stored under the key of its arguments, and the original
\* constructor returns at most once per key.
C10_AsStated ==
  /\ (Returned /\ last.cache = ClassCache) => last.value = stored[LastT][1]
  /\ \A t \in Triples : t[1] = ClassCache => Len(Get(stored, t, <<>>)) <= 1

\* C10, amended: the cache of a memoized class is used with the class itself
\* as the only context; unless the original constructor constructs the
\* memoized class with the same key while it runs, every construction that
\* returns gives the one instance stored under the key of its arguments and
\* the original constructor returns once for that key; different keys hold
\* different instances.
C10_OneInstancePerKey ==
  /\ DOMAIN store[ClassCache] \subseteq {Target}
  /\ (Returned /\ last.cache = ClassCache)
       => /\ last.value.kind = "instance"
          /\ last.value = store[ClassCache][Target][last.key]
          /\ LastT \notin reentered
               => /\ Len(stored[LastT]) = 1
                  /\ last.value = stored[LastT][1]
  /\ \A k1, k2 \in DOMAIN Get(store[ClassCache], Target, EmptyMap) :
       k1 # k2 => store[ClassCache][Target][k1] # store[ClassCache][Target][k2]

\* C10 witness: the class was constructed with two argument lists, and the
\* last construction returned the instance already stored, without running
\* the constructor
C10_Witness ==
  /\ Returned /\ last.cache = ClassCache /\ ~last.invoked
  /\ Cardinality(DOMAIN store[ClassCache][Target]) = 2

\* C5 as stated: the keys of two argument lists of different length differ.
C5_AsStated ==
  (hashed /\ Len(p) # Len(q))
    => /\ (fromP.error = "none" /\ fromQ.error = "none") => fromP.key # fromQ.key
       /\ forP.key # forQ.key

IsObject(it) == it.type = "object"

\* C6 as stated: a fetch whose argument list holds an object builds a key
\* for it: it returns a stored or a computed result, or ends with what its
\* fallback threw, and a fetch with a text argument does the same.
C6_AsStated ==
  (last.op = "fetch"
     /\ \E i \in 1..Len(last.parameters) :
          IsObject(last.parameters[i]) \/ last.parameters[i].type = "string")
    => (last.outcome = "return" \/ last.invoked)

IsPrimitive(it) == it.type \in {"number", "string"}

\* C7 as stated: for two different primitive values x and y the keys of
\* [x, y] and of [y, x] differ.
C7_AsStated ==
  (/\ hashed
   /\ Len(p) = 2
   /\ IsPrimitive(p[1]) /\ IsPrimitive(p[2]) /\ p[1] # p[2]
   /\ q = <<p[2], p[1]>>)
    => (fromP.error = "none" /\ fromQ.error = "none" /\ fromP.key # fromQ.key)

\* A registry gives different references different ids, all drawn from its
\* counter
RegistryOK(counter, refs) ==
  /\ \A a, b \in DOMAIN refs : (refs[a] = refs[b]) <=> (a = b)
  /\ \A a \in DOMAIN refs : 1 <= refs[a] /\ refs[a] < counter

\* The arguments of the call made in this step
CallArgs == IF Len(mstack') > Len(mstack) THEN mstack'[Len(mstack')].args
            ELSE mlast'.args

FirstIndex(args, a) ==
  CHOOSE i \in 1..Len(args) : args[i] = a /\ \A j \in 1..(i - 1) : args[j] # a

CurrySelf == IF clast.f = Root THEN clast.this ELSE clast.f.this

\* C19 as stated: a call of a curried method that brings the arguments to
\* fewer than the target's length returns a function and does not invoke the
\* target; a call that brings them to the length or more invokes the target
\* with all the arguments in call order and the `this` of the first call.
C19_AsStated ==
  (clast.op = "call" /\ curried.site = "method")
    => IF Len(clast.arguments) < curried.length
       THEN /\ clast.outcome = "return"
            /\ clast.value.kind = "function"
            /\ ~clast.invoked
       ELSE /\ clast.invoked
            /\ cinvoked # <<>>
            /\ cinvoked[Len(cinvoked)] = <<CurrySelf, clast.arguments>>

\* C20 as stated: curry applied to a class installs a function; called
\* without `new` it returns a function while the arguments are fewer than the
\* constructor's length and a new instance otherwise; called with `new` it
\* raises a TypeError.
C20_AsStated ==
  /\ (curried.site = "class") => curried.installed
  /\ (clast.op = "call" /\ curried.site = "class")
       => IF clast.new
          THEN clast.outcome = "throw" /\ clast.value = Err("TypeError")
          ELSE IF Len(clast.arguments) < curried.length
          THEN clast.outcome = "return" /\ clast.value.kind = "function"
               /\ ~clast.invoked
          ELSE clast.outcome = "return" /\ clast.value.kind = "instance"
               /\ clast.invoked

\* C12 as stated, for a property with a getter and a setter: a read of an
\* Empty entry invokes the getter and, when the getter returns, leaves the
\* entry Populated with the value; a read of a Populated entry returns the
\* stored value and does not invoke the getter; a write invokes the setter and
\* leaves the entry Empty.
C12_AsStated ==
  accessor.setter =>
    /\ (alast.op = "read" /\ ~alast.populated)
         => /\ alast.invoked
            /\ alast.outcome = "return"
                 => (alast.populatedAfter /\ alast.cachedAfter = alast.value)
    /\ (alast.op = "read" /\ alast.populated)
         => (~alast.invoked /\ alast.outcome = "return"
             /\ alast.value = alast.cached /\ alast.populatedAfter)
    /\ (alast.op = "write")
         => (alast.invoked /\ ~alast.populatedAfter)

\* C12: the entry of a memoized accessor is Empty or Populated.  A read of an
\* Empty entry invokes the getter once and, when the getter returns, leaves
\* the entry Populated with the value it returns; a read of a Populated entry
\* returns the stored value and does not invoke the getter; a write makes the
\* entry Empty before it invokes the setter, invokes the setter once, and
\* leaves the entry Empty unless the property was read while the setter ran.
C12_EntryStates ==
  accessor.setter =>
    /\ (alast.op = "read" /\ ~alast.populated)
         => /\ alast.invoked
            /\ alast.outcome = "return"
                 => (alast.populatedAfter /\ alast.cachedAfter = alast.value)
            /\ (alast.outcome = "throw" /\ ~alast.reentered)
                 => ~alast.populatedAfter
    /\ (alast.op = "read" /\ alast.populated)
         => (~alast.invoked /\ alast.outcome = "return"
             /\ alast.value = alast.cached /\ alast.populatedAfter)
    /\ (alast.op = "write")
         => (alast.invoked /\ (~alast.reentered => ~alast.populatedAfter))
    /\ \A i \in 1..Len(astack) :
         (astack[i].op = "write" /\ ~astack[i].reentered)
           => ~Populated(astack[i].this)
    /\ Len(agets) + Len(asets) <= acalls

\* C12 witness: a read has filled the entry, a write has emptied it, and the
\* next read has invoked the getter again.
C12_Witness ==
  /\ accessor.setter
  /\ alast.op = "read" /\ ~alast.populated /\ alast.invoked
  /\ alast.outcome = "return" /\ alast.populatedAfter
  /\ Len(agets) = 2 /\ Len(asets) = 1

\* C13 as stated: the first read of a memoized property on an instance on
\* which it was never read or written invokes the getter, whatever was read or
\* written on other instances before.
C13_AsStated ==
  (alast.op = "read" /\ alast.first) => alast.invoked

\* C14 as stated: on a memoized property without a setter, a write of
\* undefined returns and leaves the entry Empty, and a write of another value
\* raises a TypeError and leaves the entry as it was.
C14_AsStated ==
  (~accessor.setter /\ alast.op = "write")
    => IF alast.written = UndefinedResult
       THEN alast.outcome = "return" /\ ~alast.populatedAfter
       ELSE /\ alast.outcome = "throw" /\ alast.value = Err("TypeError")
            /\ alast.populatedAfter = alast.populated
            /\ alast.cachedAfter = alast.cached

\* C11 as stated: memoize applied to a method installs a callable wrapper,
\* and a call of the decorated method returns.
C11_AsStated ==
  /\ memoized.site \in {"method", "property"} => memoized.installed = "memoized"
  /\ (vlast.op = "call" /\ memoized.site \in {"method", "property"})
       => vlast.outcome = "return"

\* C15 as stated: a call, with `this` undefined, of a plain function that
\* memoize was applied to succeeds.
C15_AsStated ==
  (vlast.op = "call" /\ vlast.this = "undefined"
     /\ memoized.site \in {"property", "plain"})
    => vlast.outcome = "return"

\* A step that is a whole fetch with a fallback that is no function
NullFetchStep ==
  /\ ncalls' = ncalls + 1
  /\ stack' = stack
  /\ last'.op = "fetch null"

\* The entry such a fetch looks up was stored before the step
NullFetchHit ==
  /\ last'.key # <<>>
  /\ Has(store[last'.cache], last'.context)
  /\ Has(store[last'.cache][last'.context], last'.key)

C22_AsStated ==
  (uses > 0 /\ uthrown = "none" /\ ulast.before.site = "accessor") =>
    LET aspect == ulast.aspect
        before == ulast.before
    IN IF aspect.accessor # "undefined"
       THEN LET pair == ApplyAccessor(aspect.accessor, before.get, before.set)
            IN udescriptor.get = pair.get /\ udescriptor.set = pair.set
       ELSE (aspect.get # "undefined" /\ aspect.set # "undefined") =>
              /\ udescriptor.get = Apply(aspect.get, before.get)
              /\ udescriptor.set = Apply(aspect.set, before.set)

\* C24 (as stated): a fetch that misses adds exactly its entry, so between
\* its call and its return the entries of all caches grow by that one and
\* are otherwise the same; a fetch that hits leaves every entry and the
\* registry of surrogate ids as they were.
C24_AsStated ==
  /\ framed.op = "miss" =>
       /\ framed.after = framed.before \cup {Append(framed.entry, framed.value)}
       /\ \A e \in framed.before : <<e[1], e[2], e[3]>> # framed.entry
  /\ framed.op = "hit" =>
       /\ framed.after = framed.before
       /\ framed.registry

\* C24 (amended): the same for the fetches whose fallback made no fetch
\* itself; whatever the fallback did, the entry of a fetch that missed holds
\* the value it returned, and a fetch that hit or threw changed nothing.
C24_Frame ==
  /\ (framed.op = "miss" /\ ~framed.nested) =>
       /\ framed.after = framed.before \cup {Append(framed.entry, framed.value)}
       /\ \A e \in framed.before : <<e[1], e[2], e[3]>> # framed.entry
  /\ framed.op = "miss" => Append(framed.entry, framed.value) \in framed.after
  /\ framed.op = "hit" =>
       /\ framed.after = framed.before
       /\ framed.registry
  /\ (framed.op = "throw" /\ ~framed.nested) =>
       /\ framed.after = framed.before
       /\ framed.registry

\* C24 (witness): a fetch missed and returned while other entries were
\* stored, in its own cache and in the other one.
C24_Witness ==
  /\ framed.op = "miss"
  /\ ~framed.nested
  /\ \E e \in framed.before : e[1] = framed.entry[1] /\ e[2] # framed.entry[2]
  /\ \E e \in framed.before : e[1] # framed.entry[1]

\* The edges throttle knows
KnownEdges == {"leading", "falling"}

C23_AsStated ==
  throttled.edge = "falling" =>
    /\ tlast.op = "expire" =>
         /\ tlast.invoked
         /\ invocations # <<>>
         /\ LET i == invocations[Len(invocations)]
            IN i.this = tlast.this /\ i.parameters = tlast.parameters /\ ~i.sync
    /\ tlast.op = "call" => (~tlast.invoked /\ (tlast.pending => ~tlast.armed))
    /\ \A n \in 1..Len(invocations) : ~invocations[n].sync
====
